---- MODULE Spec2Model ----
(***************************************************************************)
(* A model of vimspector's DebugAdapterConnection                          *)
(* (python3/vimspector/debug_adapter_connection.py): the frame decoder,    *)
(* the ledger of outstanding requests with their timers, the dispatcher    *)
(* and teardown.                                                           *)
(*                                                                         *)
(* Bytes are one-character strings, buffers are sequences of bytes.        *)
(* Python's None is the string NoneValue, a dict is a function, and the    *)
(* insertion-ordered dict _outstanding_requests is a sequence of entries.  *)
(***************************************************************************)
EXTENDS Integers, Sequences, FiniteSets, TLC

\* ------------------------------------------------------------------ bounds

\* Sequence numbers the session may assign (DoRequest and DoResponse stop
\* being enabled once _next_message_id exceeds it).
MaxSeq == 2

\* Frames of the peer's stream in the chunked-delivery specification.
MaxFrames == 2

\* ------------------------------------------------------------- byte strings

NoneValue == "None"
NoException == "ok"

CR == "\r"
LF == "\n"
CRLF == <<CR, LF>>
SEP == <<CR, LF, CR, LF>>
Whitespace == {" ", "\t", CR, LF}
Digits == <<"0", "1", "2", "3", "4", "5", "6", "7", "8", "9">>
ContentLength == <<"C", "o", "n", "t", "e", "n", "t", "-", "L", "e", "n", "g", "t", "h">>

\* The set of a sequence's elements.
Range(s) == {s[i] : i \in DOMAIN s}

\* The least element of a non-empty set of integers.
Min(S) == CHOOSE x \in S : \A y \in S : x <= y

\* bytes.find: the first index at which sub occurs in s, 0 when it does not.
FindFrom(s, sub, i) ==
  LET hits == {j \in i..(Len(s) - Len(sub) + 1) : SubSeq(s, j, j + Len(sub) - 1) = sub}
  IN  IF hits = {} THEN 0 ELSE Min(hits)

Find(s, sub) == FindFrom(s, sub, 1)

\* bytes.split( sep, 1 ): one part when sep does not occur, else the text
\* before its first occurrence and the text after it.
Split1(s, sep) ==
  LET i == Find(s, sep)
  IN  IF i = 0 THEN <<s>>
      ELSE <<SubSeq(s, 1, i - 1), SubSeq(s, i + Len(sep), Len(s))>>

\* bytes.split( sep ): cut at every occurrence, left to right.
RECURSIVE SplitAll(_, _)
SplitAll(s, sep) ==
  LET i == Find(s, sep)
  IN  IF i = 0 THEN <<s>>
      ELSE <<SubSeq(s, 1, i - 1)>> \o SplitAll(SubSeq(s, i + Len(sep), Len(s)), sep)

\* bytes.strip() is falsy: the line holds nothing but whitespace.
IsBlank(line) == \A i \in DOMAIN line : line[i] \in Whitespace

\* str.strip()
RECURSIVE Strip(_)
Strip(s) ==
  IF s = <<>> THEN s
  ELSE IF Head(s) \in Whitespace THEN Strip(Tail(s))
  ELSE IF s[Len(s)] \in Whitespace THEN Strip(SubSeq(s, 1, Len(s) - 1))
  ELSE s

DigitValue(c) == (CHOOSE i \in DOMAIN Digits : Digits[i] = c) - 1

RECURSIVE DecimalValue(_)
DecimalValue(s) ==
  IF s = <<>> THEN 0
  ELSE 10 * DecimalValue(SubSeq(s, 1, Len(s) - 1)) + DigitValue(s[Len(s)])

\* int( text ): surrounding whitespace is ignored, one sign is allowed, the
\* rest must be decimal digits; anything else is a ValueError.
ParseInt(text) ==
  LET t == Strip(text)
      signed == t # <<>> /\ Head(t) \in {"+", "-"}
      digits == IF signed THEN Tail(t) ELSE t
  IN  IF digits = <<>> \/ ~(Range(digits) \subseteq Range(Digits))
        THEN [ok |-> FALSE, value |-> 0]
      ELSE [ok |-> TRUE,
            value |-> IF signed /\ Head(t) = "-" THEN 0 - DecimalValue(digits)
                      ELSE DecimalValue(digits)]

\* str( n ) as bytes, for n >= 0.
RECURSIVE DecimalText(_)
DecimalText(n) ==
  IF n < 10 THEN <<Digits[n + 1]>>
  ELSE DecimalText(n \div 10) \o <<Digits[(n % 10) + 1]>>

\* s[ : n ] and s[ n : ] with Python's reading of a negative or too large n.
PySliceTo(s, n) ==
  LET e == IF n < 0 THEN Len(s) + n ELSE n
  IN  IF e <= 0 THEN <<>> ELSE SubSeq(s, 1, IF e > Len(s) THEN Len(s) ELSE e)

PySliceFrom(s, n) ==
  LET b == IF n < 0 THEN Len(s) + n ELSE n
  IN  IF b >= Len(s) THEN <<>> ELSE SubSeq(s, (IF b < 0 THEN 0 ELSE b) + 1, Len(s))

\* Text and bytes. The data OnData is given is a str, a sequence of
\* characters: the one-character strings, and NonAscii, a character that
\* UTF-8 writes as the two bytes LeadByte, ContByte.
NonAscii == "U+00E9"
LeadByte == "0xC3"
ContByte == "0xA9"

\* bytes( text, 'utf-8' ): the encoding of a text is the encoding of its
\* first half followed by the encoding of its second half.
RECURSIVE Utf8Encode(_)
Utf8Encode(text) ==
  IF text = <<>> THEN <<>>
  ELSE IF Len(text) = 1
    THEN (IF text[1] = NonAscii THEN <<LeadByte, ContByte>> ELSE text)
  ELSE LET half == Len(text) \div 2
       IN  Utf8Encode(SubSeq(text, 1, half)) \o Utf8Encode(SubSeq(text, half + 1, Len(text)))

\* Whether str( bytes, 'utf-8' ) raises no UnicodeDecodeError: every lead
\* byte has its continuation byte and no continuation byte stands alone.
Utf8Ok(bytes) ==
  \A i \in DOMAIN bytes :
    /\ bytes[i] = LeadByte => i < Len(bytes) /\ bytes[i + 1] = ContByte
    /\ bytes[i] = ContByte => i > 1 /\ bytes[i - 1] = LeadByte

\* str( bytes, 'utf-8' ) of bytes that are well-formed: each lead byte with
\* its continuation byte reads as the one character NonAscii.
Utf8Decode(bytes) ==
  LET NotContinuation(b) == b # ContByte
      leads == SelectSeq(bytes, NotContinuation)
  IN  [i \in DOMAIN leads |-> IF leads[i] = LeadByte THEN NonAscii ELSE leads[i]]

\* ---------------------------------------------------------------- envelopes

\* body.error of a failure response. has: the keys the object holds; format:
\* the template, a sequence of literal parts and {name} placeholders;
\* variables: the substitutions.
Lit(text) == [kind |-> "lit", text |-> text]
Var(name) == [kind |-> "var", text |-> name]
NoVariables == [n \in {} |-> ""]
NoError == [has |-> {}, format |-> <<>>, variables |-> NoVariables]
GoodError ==
  [has |-> {"id", "format", "variables"},
   format |-> <<Lit("Cannot open "), Var("path")>>,
   variables |-> [n \in {"path"} |-> "a.out"]]
LiteralError ==
  [has |-> {"id", "format"}, format |-> <<Lit("Adapter failure")>>,
   variables |-> NoVariables]
NoFormatError ==
  [has |-> {"id", "variables"}, format |-> <<>>,
   variables |-> [n \in {"path"} |-> "a.out"]]
MissingVariableError ==
  [has |-> {"id", "format"}, format |-> <<Lit("Cannot open "), Var("path")>>,
   variables |-> NoVariables]
Errors == <<NoError, GoodError, LiteralError, NoFormatError, MissingVariableError>>

\* The envelope fields the dispatcher reads. name is the event of an event
\* and the command of a request; message is NoneValue when the key is absent.
Response(request_seq, success, message, error) ==
  [type |-> "response", request_seq |-> request_seq, success |-> success,
   message |-> message, error |-> error, name |-> ""]
Event(event) ==
  [type |-> "event", request_seq |-> 0, success |-> TRUE,
   message |-> NoneValue, error |-> NoError, name |-> event]
ReverseRequest(command) ==
  [type |-> "request", request_seq |-> 0, success |-> TRUE,
   message |-> NoneValue, error |-> NoError, name |-> command]

EventNames == {"stopped", "output"}
CommandNames == {"runInTerminal"}
NameCode == [stopped |-> "s", output |-> "o", runInTerminal |-> "t"]

MessageText == "Launch failed"

\* The responses the peer may send: for every sequence number a success and
\* a plain failure, and the failures with and without message and body.error.
PlainResponses ==
  {Response(n, TRUE, NoneValue, NoError) : n \in 1..MaxSeq}
    \cup {Response(n, FALSE, MessageText, NoError) : n \in 1..MaxSeq}
Responses ==
  PlainResponses
    \cup {Response(n, FALSE, NoneValue, NoError) : n \in 1..MaxSeq}
    \cup {Response(n, FALSE, MessageText, Errors[e]) :
            n \in 1..MaxSeq, e \in DOMAIN Errors}
Envelopes ==
  Responses \cup {Event(e) : e \in EventNames}
            \cup {ReverseRequest(c) : c \in CommandNames}

\* The peer's json.dumps of an envelope. The text is abbreviated to one byte
\* per field between the braces: the kind, then for a response the decimal
\* request_seq, success (t/f), whether message is present (m/-) and the
\* index of body.error, for an event or request the code of its name.
JsonDumps(m) ==
  IF m.type = "response"
    THEN <<"{", "r">> \o DecimalText(m.request_seq)
           \o <<IF m.success THEN "t" ELSE "f",
                IF m.message = NoneValue THEN "-" ELSE "m",
                Digits[CHOOSE e \in DOMAIN Errors : Errors[e] = m.error],
                "}">>
  ELSE <<"{", IF m.type = "event" THEN "e" ELSE "q", NameCode[m.name], "}">>

\* json.loads( payload, strict = False ): the envelope the text denotes, or
\* a decode error when it denotes none.
JsonLoads(payload) ==
  LET n == Len(payload)
      bad == [ok |-> FALSE, value |-> Event("")]
      names == IF payload[2] = "e" THEN EventNames ELSE CommandNames
      named == {x \in names : NameCode[x] = payload[3]}
      digits == SubSeq(payload, 3, n - 4)
      errors == {e \in DOMAIN Errors : Digits[e] = payload[n - 1]}
  IN  IF n < 4 \/ payload[1] # "{" \/ payload[n] # "}" THEN bad
      ELSE IF payload[2] \in {"e", "q"}
        THEN IF n # 4 \/ named = {} THEN bad
             ELSE [ok |-> TRUE,
                   value |-> IF payload[2] = "e"
                               THEN Event(CHOOSE x \in named : TRUE)
                             ELSE ReverseRequest(CHOOSE x \in named : TRUE)]
      ELSE IF payload[2] = "r"
        THEN IF \/ n < 7
                \/ ~(Range(digits) \subseteq Range(Digits))
                \/ payload[n - 3] \notin {"t", "f"}
                \/ payload[n - 2] \notin {"m", "-"}
                \/ errors = {}
               THEN bad
             ELSE [ok |-> TRUE,
                   value |-> Response(DecimalValue(digits), payload[n - 3] = "t",
                                      IF payload[n - 2] = "m" THEN MessageText
                                      ELSE NoneValue,
                                      Errors[CHOOSE e \in errors : TRUE])]
      ELSE bad

\* A frame as the peer writes it: Content-Length: <N> CRLF CRLF <payload>.
Frame(payload) ==
  ContentLength \o <<":", " ">> \o DecimalText(Len(payload)) \o SEP \o payload

\* -------------------------------------------------------------------- state

VARIABLES
  Write,                 \* self._Write: "send_func", NoneValue after Reset
  state,                 \* self._state
  buffer,                \* self._buffer
  headers,               \* self._headers
  handlers,              \* self._handlers: the chain, NoneHandlers after Reset
  next_message_id,       \* self._next_message_id
  outstanding_requests,  \* self._outstanding_requests, in insertion order
  timers,                \* the host's timers that are started and live
  next_timer,            \* the id the host's timer_start returns next
  wire,                  \* the seq of every envelope the write function accepted
  last_sent,             \* the envelope the last operation wrote, if any
  outcomes,              \* per request: calls of its handler, failure_handler
  removed,               \* per request: the paths it left the ledger by
  calls,                 \* the callbacks the last operation invoked, in order
  notices,               \* utils.UserMessage texts of the last operation
  raised,                \* the exception the last operation raised
  received,              \* the envelopes the last OnData decoded, in order
  last_op,               \* the last operation, its arguments and how it went
  was_reset,             \* Reset has run
  inflight,              \* text the peer wrote that OnData has not been fed
  fed,                   \* the text fed to OnData so far
  dispatched,            \* every envelope decoded so far, in order
  result,                \* the dict the closures of DoRequestSync record in
  sync                   \* the DoRequestSync call: its position and locals

vars ==
  <<Write, state, buffer, headers, handlers, next_message_id,
    outstanding_requests, timers, next_timer, wire, last_sent, outcomes, removed,
    calls, notices,
    raised, received, last_op, was_reset, inflight, fed,
    dispatched, result, sync>>

\* request.expiry_id = None
NoTimer == 0

\* {}: the empty body an aborted request's failure handler is given.
EmptyDict ==
  [type |-> "", request_seq |-> 0, success |-> FALSE, message |-> NoneValue,
   error |-> NoError, name |-> ""]

\* The methods a handler of the chain may expose.
Methods ==
  {"OnFailure"} \cup {"OnEvent_" \o e : e \in EventNames}
                \cup {"OnRequest_" \o c : c \in CommandNames}

\* A handler: the methods dir( h ) lists and those that return a truthy value.
Quiet == [methods |-> {}, truthy |-> {}]
Observer ==
  [methods |-> {"OnFailure"} \cup {"OnEvent_" \o e : e \in EventNames},
   truthy |-> {}]
Owner == [methods |-> Methods, truthy |-> Methods]
StoppedOnly == [methods |-> {"OnEvent_stopped"}, truthy |-> {"OnEvent_stopped"}]

\* The chains a session is constructed with.
Chains ==
  {<<>>, <<Quiet, Observer, Owner, Observer>>, <<Observer, StoppedOnly, Observer>>}

\* One callback invocation: fn of handler number (or request number) who,
\* about request number about, with the reason and the envelope it is given.
Call(fn, who, about, reason, msg) ==
  [fn |-> fn, who |-> who, about |-> about, reason |-> reason, msg |-> msg]

\* The part of the session the ledger operations read and change.
Session ==
  [handlers |-> handlers, ledger |-> outstanding_requests, timers |-> timers,
   outcomes |-> outcomes, removed |-> removed, calls |-> <<>>,
   notices |-> <<>>]

PendingRequest(msg, handler, failure_handler, expiry_id) ==
  [msg |-> msg, handler |-> handler, failure_handler |-> failure_handler,
   expiry_id |-> expiry_id, key |-> msg.seq]

\* The position of key in the ledger, 0 when it is absent.
LedgerIndex(ledger, key) ==
  LET hits == {i \in DOMAIN ledger : ledger[i].key = key}
  IN  IF hits = {} THEN 0 ELSE Min(hits)

\* dict.pop / dict.popitem: the ledger without its i-th entry.
Without(ledger, i) == SubSeq(ledger, 1, i - 1) \o SubSeq(ledger, i + 1, Len(ledger))

\* A _KillTimer that forgets the timer and does not stop it.
KillTimer_NoStop(s, request) ==
  IF request.expiry_id # NoTimer
    THEN [s EXCEPT
            !.ledger = [i \in DOMAIN @ |->
                          IF @[i].key = request.key
                            THEN [@[i] EXCEPT !.expiry_id = NoTimer]
                          ELSE @[i]]]
  ELSE s

\* _KillTimer: timer_stop, and the request object forgets its timer (the
\* object may still be the one the ledger holds).
KillTimer(s, request) ==
  IF request.expiry_id # NoTimer
    THEN [s EXCEPT
            !.timers = @ \ {request.expiry_id},
            !.ledger = [i \in DOMAIN @ |->
                          IF @[i].key = request.key
                            THEN [@[i] EXCEPT !.expiry_id = NoTimer]
                          ELSE @[i]]]
  ELSE s

\* _AbortRequest
AbortRequest(s, request, reason) ==
  LET k == KillTimer(s, request)
  IN  IF request.failure_handler
        THEN [k EXCEPT
                !.calls = Append(@, Call("failure_handler", request.key,
                                         request.key, reason, EmptyDict)),
                !.outcomes[request.key].failure = @ + 1]
      ELSE [k EXCEPT
              !.notices = Append(@, "Request for " \o request.msg.command
                                      \o " aborted: " \o reason)]

\* fmt.format( **variables ) raises no KeyError.
FormatOk(error) ==
  /\ "format" \in error.has
  /\ \A i \in DOMAIN error.format :
       error.format[i].kind = "var" =>
         /\ "variables" \in error.has
         /\ error.format[i].text \in DOMAIN error.variables

RECURSIVE FormatText(_, _)
FormatText(parts, variables) ==
  IF parts = <<>> THEN ""
  ELSE (IF Head(parts).kind = "lit" THEN Head(parts).text
        ELSE variables[Head(parts).text]) \o FormatText(Tail(parts), variables)

\* The reason of a failure response: message, or the rendered body.error.
FailureReason(message) ==
  IF message.error.has # {} /\ FormatOk(message.error)
    THEN FormatText(message.error.format, message.error.variables)
  ELSE message.message

\* A walk that goes on after a handler has returned a truthy value.
RECURSIVE WalkChain_NoBreak(_, _, _, _, _, _)
WalkChain_NoBreak(chain, i, method, about, reason, message) ==
  IF i > Len(chain) THEN <<>>
  ELSE IF method \notin chain[i].methods
    THEN WalkChain_NoBreak(chain, i + 1, method, about, reason, message)
  ELSE <<Call(method, i, about, reason, message)>>
         \o WalkChain_NoBreak(chain, i + 1, method, about, reason, message)

\* for h in self._handlers: if method in dir( h ): if h.method(...): break
\* from handler number i on; the calls made, in order.
RECURSIVE WalkChain(_, _, _, _, _, _)
WalkChain(chain, i, method, about, reason, message) ==
  IF i > Len(chain) THEN <<>>
  ELSE IF method \notin chain[i].methods
    THEN WalkChain(chain, i + 1, method, about, reason, message)
  ELSE <<Call(method, i, about, reason, message)>>
         \o (IF method \in chain[i].truthy THEN <<>>
             ELSE WalkChain(chain, i + 1, method, about, reason, message))

\* self._handlers is a list, or None after Reset.
HandlerList(chain) == [none |-> FALSE, list |-> chain]
NoneHandlers == [none |-> TRUE, list |-> <<>>]

\* not self._handlers: None and the empty list are both falsy.
NoHandlers(hs) == hs.none \/ hs.list = <<>>

\* _OnMessageReceived
OnMessageReceived(s, message) ==
  IF NoHandlers(s.handlers) THEN s
  ELSE IF message.type = "response" THEN
    LET i == LedgerIndex(s.ledger, message.request_seq)
    IN  IF i = 0
          THEN [s EXCEPT
                  !.notices = Append(@,
                    "Protocol error: duplicate response for request "
                      \o ToString(message.request_seq))]
        ELSE
          LET request == s.ledger[i]
              k == KillTimer([s EXCEPT !.ledger = Without(@, i),
                                       !.removed[request.key] =
                                         Append(@, "response")],
                             request)
              reason == FailureReason(message)
          IN  IF message.success
                THEN IF request.handler
                       THEN [k EXCEPT
                               !.calls = Append(@, Call("handler", request.key,
                                           request.key, NoneValue, message)),
                               !.outcomes[request.key].success = @ + 1]
                     ELSE k
              ELSE IF request.failure_handler
                THEN [k EXCEPT
                        !.calls = Append(@, Call("failure_handler", request.key,
                                    request.key, reason, message)),
                        !.outcomes[request.key].failure = @ + 1]
              ELSE [k EXCEPT
                      !.calls = @ \o WalkChain(s.handlers.list, 1, "OnFailure",
                                               request.key, reason, message)]
  ELSE IF message.type = "event"
    THEN [s EXCEPT
            !.calls = @ \o WalkChain(s.handlers.list, 1, "OnEvent_" \o message.name,
                                     0, NoneValue, message)]
  ELSE IF message.type = "request"
    THEN [s EXCEPT
            !.calls = @ \o WalkChain(s.handlers.list, 1, "OnRequest_" \o message.name,
                                     0, NoneValue, message)]
  ELSE s

\* ------------------------------------------------------------ frame decoder

NoHeaders == [k \in {} |-> <<>>]

\* The decoder as OnData runs it: its three fields, the session the decoded
\* envelopes are dispatched to, the envelopes decoded so far and the
\* exception that ended the call.
Decoder(data) ==
  [state |-> state, buffer |-> buffer \o Utf8Encode(data), headers |-> headers,
   sess |-> Session, msgs |-> <<>>, raised |-> NoException]

\* _SetState
SetState(d, new_state) ==
  [d EXCEPT !.state = new_state,
            !.headers = IF new_state = "READ_HEADER" THEN NoHeaders ELSE @]

\* The loop over the header lines in _ReadHeaders: each line is cut after
\* its last bare LF, a blank line is skipped, the rest is split on its first
\* colon (a line without one raises ValueError, the keys set so far kept).
RECURSIVE ReadHeaderLines(_, _)
ReadHeaderLines(lines, hs) ==
  IF lines = <<>> THEN [headers |-> hs, raised |-> NoException]
  ELSE
    LET cut == SplitAll(Head(lines), <<LF>>)
        header_line == IF LF \in Range(Head(lines)) THEN cut[Len(cut)]
                       ELSE Head(lines)
        kv == Split1(Utf8Decode(header_line), <<":">>)
    IN  IF IsBlank(header_line) THEN ReadHeaderLines(Tail(lines), hs)
        ELSE IF ~Utf8Ok(header_line)
          THEN [headers |-> hs, raised |-> "UnicodeDecodeError"]
        ELSE IF Len(kv) < 2 THEN [headers |-> hs, raised |-> "ValueError"]
        ELSE ReadHeaderLines(
               Tail(lines),
               [k \in DOMAIN hs \cup {kv[1]} |-> IF k = kv[1] THEN kv[2] ELSE hs[k]])

\* _ReadHeaders
ReadHeaders(d) ==
  LET parts == Split1(d.buffer, SEP)
  IN  IF Len(parts) > 1
        THEN LET r == ReadHeaderLines(SplitAll(parts[1], CRLF), d.headers)
             IN  IF r.raised # NoException
                   THEN [d EXCEPT !.headers = r.headers, !.raised = r.raised]
                 ELSE SetState([d EXCEPT !.headers = r.headers,
                                         !.buffer = parts[2]], "READ_BODY")
      ELSE d

\* A body reader that forgets the bytes that follow the body it has read.
ReadBody_DropsRest(d) ==
  IF ContentLength \notin DOMAIN d.headers
    THEN SetState([d EXCEPT !.buffer = <<>>], "READ_HEADER")
  ELSE
    LET content_length == ParseInt(d.headers[ContentLength])
    IN  IF ~content_length.ok THEN [d EXCEPT !.raised = "ValueError"]
        ELSE IF Len(d.buffer) < content_length.value THEN d
        ELSE
          LET body == PySliceTo(d.buffer, content_length.value)
              message == JsonLoads(Utf8Decode(body))
              read == SetState([d EXCEPT !.buffer = <<>>], "READ_HEADER")
          IN  IF ~Utf8Ok(body) THEN [d EXCEPT !.raised = "UnicodeDecodeError"]
              ELSE IF ~message.ok THEN [read EXCEPT !.raised = "JSONDecodeError"]
              ELSE [read EXCEPT
                      !.msgs = Append(@, message.value),
                      !.sess = OnMessageReceived(@, message.value)]

\* A body reader that keeps the buffer when Content-Length is missing.
ReadBody_KeepsBuffer(d) ==
  IF ContentLength \notin DOMAIN d.headers
    THEN SetState(d, "READ_HEADER")
  ELSE
    LET content_length == ParseInt(d.headers[ContentLength])
    IN  IF ~content_length.ok THEN [d EXCEPT !.raised = "ValueError"]
        ELSE IF Len(d.buffer) < content_length.value THEN d
        ELSE
          LET body == PySliceTo(d.buffer, content_length.value)
              message == JsonLoads(Utf8Decode(body))
              read == SetState([d EXCEPT !.buffer =
                                  PySliceFrom(d.buffer, content_length.value)],
                               "READ_HEADER")
          IN  IF ~Utf8Ok(body) THEN [d EXCEPT !.raised = "UnicodeDecodeError"]
              ELSE IF ~message.ok THEN [read EXCEPT !.raised = "JSONDecodeError"]
              ELSE [read EXCEPT
                      !.msgs = Append(@, message.value),
                      !.sess = OnMessageReceived(@, message.value)]

\* _ReadBody
ReadBody(d) ==
  IF ContentLength \notin DOMAIN d.headers
    THEN SetState([d EXCEPT !.buffer = <<>>], "READ_HEADER")
  ELSE
    LET content_length == ParseInt(d.headers[ContentLength])
    IN  IF ~content_length.ok THEN [d EXCEPT !.raised = "ValueError"]
        ELSE IF Len(d.buffer) < content_length.value THEN d
        ELSE
          LET body == PySliceTo(d.buffer, content_length.value)
              rest == PySliceFrom(d.buffer, content_length.value)
              read == SetState([d EXCEPT !.buffer = rest], "READ_HEADER")
              message == JsonLoads(Utf8Decode(body))
          IN  IF ~Utf8Ok(body) THEN [d EXCEPT !.raised = "UnicodeDecodeError"]
              ELSE IF ~message.ok THEN [read EXCEPT !.raised = "JSONDecodeError"]
              ELSE [read EXCEPT
                      !.msgs = Append(@, message.value),
                      !.sess = OnMessageReceived(@, message.value)]

\* The loop of OnData.
RECURSIVE OnDataLoop(_)
OnDataLoop(d) ==
  LET h == IF d.state = "READ_HEADER" THEN ReadHeaders(d) ELSE d
  IN  IF h.raised # NoException THEN h
      ELSE IF h.state = "READ_BODY"
        THEN LET b == ReadBody(h)
             IN  IF b.raised # NoException THEN b
                 ELSE IF b.state # "READ_HEADER" THEN b
                 ELSE OnDataLoop(b)
      ELSE h

\* ------------------------------------------------------------- operations

\* result = {} in DoRequestSync.
NoResult == [has |-> {}, response |-> EmptyDict, exception |-> NoneValue]

\* No DoRequestSync call has been made.
NoSync ==
  [pc |-> "idle", key |-> 0, timeout |-> 0, to_wait |-> 0, sleeps |-> 0,
   ret |-> [kind |-> "", reason |-> NoneValue, response |-> EmptyDict]]

\* The closures handler and failure_handler of DoRequestSync, which are the
\* callbacks of request number key: what they leave in the dict after the
\* calls cs.
RECURSIVE Recorded(_, _, _)
Recorded(r, key, cs) ==
  IF cs = <<>> THEN r
  ELSE LET c == Head(cs)
       IN  Recorded(
             IF c.who = key /\ c.fn = "handler"
               THEN [r EXCEPT !.has = @ \cup {"response"}, !.response = c.msg]
             ELSE IF c.who = key /\ c.fn = "failure_handler"
               THEN [r EXCEPT !.has = @ \cup {"response", "exception"},
                              !.response = c.msg, !.exception = c.reason]
             ELSE r,
             key, Tail(cs))

\* What an operation leaves of the session record in the variables.
Commit(s) ==
  /\ outstanding_requests' = s.ledger
  /\ timers' = s.timers
  /\ outcomes' = s.outcomes
  /\ removed' = s.removed
  /\ calls' = s.calls
  /\ notices' = s.notices
  /\ result' = Recorded(result, sync.key, s.calls)

\* A send that does not look whether the write function is still there.
SendMessage_NoGuard(msg, write_ok) == write_ok

\* _SendMessage: whether the envelope was written. write_ok is what the
\* write function returns when it is called.
SendMessage(msg, write_ok) == IF Write = NoneValue THEN FALSE ELSE write_ok

\* Nothing was written.
NoMsg ==
  [seq |-> 0, type |-> "", command |-> "", request_seq |-> 0, success |-> FALSE,
   message |-> NoneValue]

\* A session that hands the same number out again.
NextId_Stuck(this_id) == this_id

\* self._next_message_id += 1
NextId(this_id) == this_id + 1

\* self._outstanding_requests[ key ] = request
Entry(key, request) == [request EXCEPT !.key = key]

\* A request envelope that carries the number after its own.
RequestMsg_NextSeq(this_id, command) ==
  [seq |-> this_id + 1, type |-> "request", command |-> command,
   request_seq |-> 0, success |-> TRUE, message |-> NoneValue]

\* The envelope DoRequest builds.
RequestMsg(this_id, command) ==
  [seq |-> this_id, type |-> "request", command |-> command, request_seq |-> 0,
   success |-> TRUE, message |-> NoneValue]

\* A response that reports success whatever the error.
ResponseMsg_AlwaysSuccess(this_id, request, error) ==
  [seq |-> this_id, type |-> "response", command |-> request.command,
   request_seq |-> request.seq, success |-> TRUE, message |-> NoneValue]

\* The envelope DoResponse builds.
ResponseMsg(this_id, request, error) ==
  [seq |-> this_id, type |-> "response", command |-> request.command,
   request_seq |-> request.seq, success |-> error = NoneValue,
   message |-> error]

\* DoRequest
DoRequest(handler, failure_handler, command, write_ok) ==
  /\ next_message_id <= MaxSeq
  /\ LET this_id == next_message_id
         msg == RequestMsg(this_id, command)
         expiry_id == next_timer
         request == Entry(this_id, PendingRequest(msg, handler, failure_handler,
                                                  expiry_id))
         sent == SendMessage(msg, write_ok)
     IN  /\ next_message_id' = NextId(this_id)
         /\ next_timer' = next_timer + 1
         /\ wire' = IF sent THEN Append(wire, msg.seq) ELSE wire
         /\ last_sent' = IF sent THEN msg ELSE NoMsg
         /\ \E s \in {[Session EXCEPT !.timers = @ \cup {expiry_id},
                                      !.ledger = Append(@, request)]} :
              \E t \in {IF sent THEN s
                        ELSE AbortRequest(s, request, "Unable to send message")} :
                Commit(t)
         /\ last_op' = [op |-> "DoRequest", arg |-> this_id, ok |-> sent]
  /\ raised' = NoException
  /\ received' = <<>>
  /\ UNCHANGED <<Write, state, buffer, headers, handlers, was_reset, inflight,
                 fed, dispatched, sync>>

\* DoResponse
DoResponse(request, error, write_ok) ==
  /\ next_message_id <= MaxSeq
  /\ LET this_id == next_message_id
         msg == ResponseMsg(this_id, request, error)
         sent == SendMessage(msg, write_ok)
     IN  /\ next_message_id' = NextId(this_id)
         /\ wire' = IF sent THEN Append(wire, msg.seq) ELSE wire
         /\ last_sent' = IF sent THEN msg ELSE NoMsg
         /\ last_op' = [op |-> "DoResponse", arg |-> this_id, ok |-> sent,
                        request |-> request, error |-> error]
  /\ Commit(Session)
  /\ raised' = NoException
  /\ received' = <<>>
  /\ UNCHANGED <<Write, state, buffer, headers, handlers, next_timer, was_reset,
                 inflight, fed, dispatched, sync>>

\* A timeout that aborts the request and leaves its entry in the ledger.
TimeoutSession_KeepsEntry(s, timer_id) ==
  LET hits == {i \in DOMAIN s.ledger : s.ledger[i].expiry_id = timer_id}
  IN  IF hits = {} THEN [s EXCEPT !.timers = @ \ {timer_id}]
      ELSE AbortRequest([s EXCEPT !.timers = @ \ {timer_id}],
                        s.ledger[Min(hits)], "Timeout")

\* A timeout that, when no entry owns the timer, takes the oldest entry.
TimeoutSession_AnyEntry(s, timer_id) ==
  LET hits == {i \in DOMAIN s.ledger : s.ledger[i].expiry_id = timer_id}
      request_id == IF hits # {} THEN Min(hits)
                    ELSE IF s.ledger # <<>> THEN 1 ELSE 0
      fired == [s EXCEPT !.timers = @ \ {timer_id}]
  IN  IF request_id # 0
        THEN AbortRequest(
               [fired EXCEPT !.ledger = Without(@, request_id),
                             !.removed[s.ledger[request_id].key] =
                               Append(@, "timeout")],
               s.ledger[request_id], "Timeout")
      ELSE fired

\* The body of OnRequestTimeout: the first entry, in insertion order, whose
\* expiry_id is timer_id is popped and aborted. The host's timer is one-shot:
\* once it has fired it is no longer live.
TimeoutSession(s, timer_id) ==
  LET hits == {i \in DOMAIN s.ledger : s.ledger[i].expiry_id = timer_id}
      request_id == IF hits = {} THEN 0 ELSE Min(hits)
      fired == [s EXCEPT !.timers = @ \ {timer_id}]
  IN  IF request_id # 0
        THEN AbortRequest(
               [fired EXCEPT !.ledger = Without(@, request_id),
                             !.removed[s.ledger[request_id].key] =
                               Append(@, "timeout")],
               s.ledger[request_id], "Timeout")
      ELSE fired

\* OnRequestTimeout
OnRequestTimeout(timer_id) ==
  /\ \E s \in {TimeoutSession(Session, timer_id)} : Commit(s)
  /\ last_op' = [op |-> "OnRequestTimeout", arg |-> timer_id,
                 ok |-> \E i \in DOMAIN outstanding_requests :
                          outstanding_requests[i].expiry_id = timer_id]
  /\ raised' = NoException
  /\ received' = <<>>
  /\ UNCHANGED <<Write, state, buffer, headers, handlers, next_message_id,
                 next_timer, wire, last_sent, was_reset, inflight, fed,
                 dispatched, sync>>

\* A teardown that aborts the entry inserted last and drops the others.
AbortAll_DropsRest(s) ==
  IF s.ledger = <<>> THEN s
  ELSE [AbortRequest(s, s.ledger[Len(s.ledger)], "Closing down")
          EXCEPT !.ledger = <<>>]

\* The while loop of Reset: popitem takes the entry inserted last.
RECURSIVE AbortAll(_)
AbortAll(s) ==
  IF s.ledger = <<>> THEN s
  ELSE AbortAll(AbortRequest(
                  [s EXCEPT !.ledger = Without(@, Len(@)),
                            !.removed[s.ledger[Len(s.ledger)].key] =
                              Append(@, "reset")],
                  s.ledger[Len(s.ledger)], "Closing down"))

\* Reset
Reset ==
  /\ Write' = NoneValue
  /\ handlers' = NoneHandlers
  /\ \E s \in {AbortAll(Session)} : Commit(s)
  /\ was_reset' = TRUE
  /\ last_op' = [op |-> "Reset", arg |-> Len(outstanding_requests), ok |-> TRUE]
  /\ raised' = NoException
  /\ received' = <<>>
  /\ UNCHANGED <<state, buffer, headers, next_message_id, next_timer, wire,
                 last_sent, inflight, fed, dispatched, sync>>

\* OnData
OnData(data) ==
  \E d \in {OnDataLoop(Decoder(data))} :
    /\ state' = d.state
    /\ buffer' = d.buffer
    /\ headers' = d.headers
    /\ Commit(d.sess)
    /\ raised' = d.raised
    /\ received' = d.msgs
    /\ last_op' = [op |-> "OnData", arg |-> 0, ok |-> d.raised = NoException]
    /\ UNCHANGED <<Write, handlers, next_message_id, next_timer, wire, last_sent,
                   was_reset, sync>>

\* ------------------------------------------------------------ specification

\* What the client asks of the adapter, what the adapter asks of the client,
\* and the error a reverse request is answered with.
RequestCommands == {"initialize"}
ReverseRequests == {[seq |-> 7, command |-> c] : c \in CommandNames}
ResponseErrors == {NoneValue, "Cancelled"}

Init ==
  /\ Write = "send_func"
  /\ state = "READ_HEADER"
  /\ buffer = <<>>
  /\ headers = NoHeaders
  /\ handlers \in {HandlerList(c) : c \in Chains}
  /\ next_message_id = 1
  /\ outstanding_requests = <<>>
  /\ timers = {}
  /\ next_timer = 1
  /\ wire = <<>>
  /\ last_sent = NoMsg
  /\ outcomes = [n \in 1..MaxSeq |-> [success |-> 0, failure |-> 0]]
  /\ removed = [n \in 1..MaxSeq |-> <<>>]
  /\ calls = <<>>
  /\ notices = <<>>
  /\ raised = NoException
  /\ received = <<>>
  /\ last_op = [op |-> "init", arg |-> 0, ok |-> TRUE]
  /\ was_reset = FALSE
  /\ inflight = <<>>
  /\ fed = <<>>
  /\ dispatched = <<>>
  /\ result = NoResult
  /\ sync = NoSync

\* The (handler, failure_handler) pairs a request is issued with: TRUE for a
\* callback, FALSE for None.
Callbacks == {<<TRUE, TRUE>>, <<TRUE, FALSE>>, <<FALSE, FALSE>>}

\* A caller issues a request.
Request ==
  \E cb \in Callbacks, command \in RequestCommands, write_ok \in BOOLEAN :
    DoRequest(cb[1], cb[2], command, write_ok)

\* A caller answers a reverse request.
Respond ==
  \E request \in ReverseRequests, error \in ResponseErrors, write_ok \in BOOLEAN :
    DoResponse(request, error, write_ok)

\* The channel delivers one whole frame of the peer.
Receive ==
  \E m \in PlainResponses \cup {Event("stopped")} :
    /\ OnData(Frame(JsonDumps(m)))
    /\ UNCHANGED <<inflight, fed, dispatched>>

\* A live timer of the host fires and is routed to this session.
TimerFired == \E timer_id \in timers : OnRequestTimeout(timer_id)

\* OnRequestTimeout is called with a timer that is not live: stopped, fired
\* before, or another session's.
StaleTimeout ==
  \E timer_id \in (1..MaxSeq) \ timers : OnRequestTimeout(timer_id)

\* The session's whole life: requests, responses both ways, timers, teardown.
Next == Request \/ Respond \/ Receive \/ TimerFired \/ StaleTimeout \/ Reset

Spec == Init /\ [][Next]_vars

\* The host's timers: a timer that stays live fires in the end and is routed
\* to OnRequestTimeout.
SpecLive == Spec /\ \A t \in 1..MaxSeq : WF_vars(t \in timers /\ OnRequestTimeout(t))

\* The dispatcher alone: requests that were written, and every envelope the
\* peer may answer with.
RequestSent ==
  \E cb \in Callbacks, command \in RequestCommands :
    DoRequest(cb[1], cb[2], command, TRUE)

ReceiveAny ==
  \E m \in Envelopes :
    /\ OnData(Frame(JsonDumps(m)))
    /\ UNCHANGED <<inflight, fed, dispatched>>

DispatchNext == RequestSent \/ ReceiveAny

SpecDispatch == Init /\ [][DispatchNext]_vars

\* The decoder under chunked delivery: the peer has written a stream of
\* frames, some with a further header, and the channel hands OnData the next
\* bytes of the stream in chunks of any length.
FrameWith(payload, extra) ==
  IF extra
    THEN <<"X", ":", "y">> \o CRLF \o Frame(payload)
  ELSE Frame(payload)

PeerFrames ==
  {FrameWith(JsonDumps(Response(1, TRUE, NoneValue, NoError)), FALSE),
   FrameWith(JsonDumps(Response(1, FALSE, MessageText, GoodError)), TRUE),
   FrameWith(JsonDumps(Event("stopped")), TRUE)}

\* The streams of at most n frames.
RECURSIVE Streams(_)
Streams(n) ==
  IF n = 0 THEN {<<>>}
  ELSE Streams(n - 1) \cup {s \o f : s \in Streams(n - 1), f \in PeerFrames}

Deliver ==
  \E n \in 1..Len(inflight) :
    /\ OnData(SubSeq(inflight, 1, n))
    /\ inflight' = SubSeq(inflight, n + 1, Len(inflight))
    /\ fed' = fed \o SubSeq(inflight, 1, n)
    /\ dispatched' = dispatched \o received'

FirstRequest ==
  /\ next_message_id = 1
  /\ DoRequest(TRUE, TRUE, "initialize", TRUE)

ChunkInit ==
  /\ Write = "send_func"
  /\ state = "READ_HEADER"
  /\ buffer = <<>>
  /\ headers = NoHeaders
  /\ handlers = HandlerList(<<Observer, StoppedOnly, Observer>>)
  /\ next_message_id = 1
  /\ outstanding_requests = <<>>
  /\ timers = {}
  /\ next_timer = 1
  /\ wire = <<>>
  /\ last_sent = NoMsg
  /\ outcomes = [n \in 1..MaxSeq |-> [success |-> 0, failure |-> 0]]
  /\ removed = [n \in 1..MaxSeq |-> <<>>]
  /\ calls = <<>>
  /\ notices = <<>>
  /\ raised = NoException
  /\ received = <<>>
  /\ last_op = [op |-> "init", arg |-> 0, ok |-> TRUE]
  /\ was_reset = FALSE
  /\ inflight \in Streams(MaxFrames)
  /\ fed = <<>>
  /\ dispatched = <<>>
  /\ result = NoResult
  /\ sync = NoSync

ChunkNext == Deliver \/ FirstRequest

SpecChunks == ChunkInit /\ [][ChunkNext]_vars

\* The decoder and a faulty peer: the stream starts with a frame the peer got
\* wrong, well-formed frames follow, and the channel cuts it anywhere.

\* A complete header block that has no Content-Length header.
NoLengthBlock == <<"X", ":", "y">> \o SEP

\* The well-formed frames that follow the faulty one.
FollowingFrames ==
  <<Frame(JsonDumps(Response(1, TRUE, NoneValue, NoError))),
    Frame(JsonDumps(Event("stopped")))>>

\* A header block whose first line holds a bare line-feed, "Content-Length:
\* 13\nGarbage", and whose second line is the Content-Length of the body.
StrayLineFeedBlock ==
  ContentLength \o <<":", " ", "1", "3", LF, "G", "a", "r", "b", "a", "g", "e">>
    \o CRLF \o ContentLength \o <<":", " ">>
    \o DecimalText(Len(JsonDumps(Event("output")))) \o SEP

\* The frame of that header block.
StrayLineFeedFrame == StrayLineFeedBlock \o JsonDumps(Event("output"))

\* Bodies that do not decode: text that is no JSON, and text with non-ASCII
\* characters sent by a peer that counts characters, as _SendMessage does,
\* so that Content-Length ends inside a character.
NotJson == <<"{", "z", "z", "}">>
SplitCharacter == <<NonAscii, NonAscii, LF>>
UndecodableBodies == {NotJson, SplitCharacter}

FaultyFrames ==
  {NoLengthBlock, StrayLineFeedFrame} \cup {Frame(p) : p \in UndecodableBodies}

FaultyStreams ==
  {f \o FollowingFrames[1] \o FollowingFrames[2] : f \in FaultyFrames}

FaultInit ==
  /\ Write = "send_func"
  /\ state = "READ_HEADER"
  /\ buffer = <<>>
  /\ headers = NoHeaders
  /\ handlers = HandlerList(<<Observer, StoppedOnly, Observer>>)
  /\ next_message_id = 1
  /\ outstanding_requests = <<>>
  /\ timers = {}
  /\ next_timer = 1
  /\ wire = <<>>
  /\ last_sent = NoMsg
  /\ outcomes = [n \in 1..MaxSeq |-> [success |-> 0, failure |-> 0]]
  /\ removed = [n \in 1..MaxSeq |-> <<>>]
  /\ calls = <<>>
  /\ notices = <<>>
  /\ raised = NoException
  /\ received = <<>>
  /\ last_op = [op |-> "init", arg |-> 0, ok |-> TRUE]
  /\ was_reset = FALSE
  /\ inflight \in FaultyStreams
  /\ fed = <<>>
  /\ dispatched = <<>>
  /\ result = NoResult
  /\ sync = NoSync

FaultNext == Deliver \/ FirstRequest

SpecFaults == FaultInit /\ [][FaultNext]_vars

\* DoRequestSync, a step at a time. Callbacks of the host (bytes arrived, a
\* timer fired, teardown) run only while the call sleeps.

\* The timeouts DoRequestSync is called with, in ms.
SyncTimeouts == {0, 25}

\* to_wait = timeout + 1000
GraceMs == 1000

\* vim.command( 'sleep 10m' ); to_wait -= 10
SleepMs == 10

\* What the call ends with: raise RuntimeError( reason ) or return response.
Raise(reason) == [kind |-> "raise", reason |-> reason, response |-> EmptyDict]
Return(response) == [kind |-> "return", reason |-> NoneValue, response |-> response]

\* A call that returns the response whenever there is one.
SyncOutcome_IgnoresException(r) ==
  IF "response" \in r.has THEN Return(r.response) ELSE Raise("No response")

\* The end of DoRequestSync: the exception if one was recorded, "No response"
\* if nothing was, the response otherwise.
SyncOutcome(r) ==
  IF "exception" \in r.has THEN Raise(r.exception)
  ELSE IF "response" \notin r.has THEN Raise("No response")
  ELSE Return(r.response)

\* result = {}, the timeout and the two closures.
SyncCall ==
  /\ sync.pc = "idle"
  /\ next_message_id <= MaxSeq
  /\ \E timeout \in SyncTimeouts :
       sync' = [NoSync EXCEPT !.pc = "call", !.key = next_message_id,
                              !.timeout = timeout]
  /\ result' = NoResult
  /\ UNCHANGED <<Write, state, buffer, headers, handlers, next_message_id,
                 outstanding_requests, timers, next_timer, wire, last_sent,
                 outcomes, removed, calls, notices, raised, received, last_op,
                 was_reset, inflight, fed, dispatched>>

\* self.DoRequest( handler, msg, failure_handler, timeout )
SyncDoRequest ==
  /\ sync.pc = "call"
  /\ next_message_id = sync.key
  /\ \E command \in RequestCommands, write_ok \in BOOLEAN :
       DoRequest(TRUE, TRUE, command, write_ok)

\* The rest of a step of DoRequestSync, which changes only its locals.
SyncLocal ==
  UNCHANGED <<Write, state, buffer, headers, handlers, next_message_id,
              outstanding_requests, timers, next_timer, wire, last_sent,
              outcomes, removed, calls, notices, raised, received, last_op,
              was_reset, inflight, fed, dispatched, result>>

\* to_wait = timeout + 1000
SyncWait ==
  /\ sync.pc = "call"
  /\ next_message_id # sync.key
  /\ sync' = [sync EXCEPT !.pc = "loop", !.to_wait = sync.timeout + GraceMs]
  /\ SyncLocal

\* while not result and to_wait >= 0: the call goes to sleep, or leaves the
\* loop and ends.
SyncTest ==
  /\ sync.pc = "loop"
  /\ IF result.has = {} /\ sync.to_wait >= 0
       THEN sync' = [sync EXCEPT !.pc = "sleep", !.sleeps = @ + 1]
     ELSE sync' = [sync EXCEPT !.pc = "done", !.ret = SyncOutcome(result)]
  /\ SyncLocal

\* The sleep is over: to_wait -= 10
SyncWake ==
  /\ sync.pc = "sleep"
  /\ sync' = [sync EXCEPT !.pc = "loop", !.to_wait = @ - SleepMs]
  /\ SyncLocal

\* What the host runs while the call sleeps.
SyncCallback ==
  /\ sync.pc = "sleep"
  /\ (Receive \/ TimerFired \/ Reset)

SyncNext ==
  SyncCall \/ SyncDoRequest \/ SyncWait \/ SyncTest \/ SyncWake \/ SyncCallback

SpecSync == Init /\ [][SyncNext]_vars

\* The interpreter goes on running DoRequestSync, and a sleep of the host
\* comes to its end.
SpecSyncLive ==
  SpecSync /\ WF_vars(SyncDoRequest \/ SyncWait \/ SyncTest \/ SyncWake)

\* ------------------------------------------------------------------ claims

\* The keys of the ledger.
Keys(ledger) == {ledger[i].key : i \in DOMAIN ledger}

\* The step just taken is operation op.
Did(op) == last_op'.op = op

\* C1: every request's outcome is delivered at most once (calls of its
\* success handler plus calls of its failure handler never exceed one) and
\* it leaves the ledger at most once.
OutcomeDeliveredAtMostOnce ==
  \A n \in 1..MaxSeq :
    /\ outcomes[n].success + outcomes[n].failure <= 1
    /\ Len(removed[n]) <= 1

\* C2: when the write fails in DoRequest, the entry just created is aborted
\* with "Unable to send message", it is out of the ledger and its timer is
\* cancelled when DoRequest returns, and the other entries and the rest of
\* the session are as they were.
SendFailureRemovesEntry ==
  [][(Did("DoRequest") /\ ~last_op'.ok) =>
       /\ outstanding_requests' = outstanding_requests
       /\ timers' = timers
       /\ \/ /\ calls' = <<Call("failure_handler", last_op'.arg, last_op'.arg,
                                "Unable to send message", EmptyDict)>>
             /\ notices' = <<>>
          \/ /\ calls' = <<>>
             /\ \E c \in RequestCommands :
                  notices' = <<"Request for " \o c
                                 \o " aborted: Unable to send message">>
       /\ UNCHANGED <<Write, state, buffer, headers, handlers, wire>>
    ]_vars

\* C6: every outbound envelope gets a fresh sequence number: the numbers
\* DoRequest and DoResponse assign start at 1 and go up by one per call, so
\* the numbers written are strictly increasing and none is written twice.
FreshSequenceNumbers ==
  /\ \A i \in DOMAIN wire : 1 <= wire[i] /\ wire[i] < next_message_id
  /\ \A i \in DOMAIN wire : \A j \in DOMAIN wire : i < j => wire[i] < wire[j]
  /\ last_op.op \in {"DoRequest", "DoResponse"} =>
       /\ last_op.arg = next_message_id - 1
       /\ last_op.ok => /\ wire # <<>>
                        /\ wire[Len(wire)] = last_op.arg
                        /\ last_sent.seq = last_op.arg
  /\ last_op.op = "init" => next_message_id = 1 /\ wire = <<>>
  /\ \A i \in DOMAIN outstanding_requests :
       outstanding_requests[i].msg.seq < next_message_id

\* C6 happens: a request and a response were written, the response last,
\* after an inbound envelope was dispatched.
FreshSequenceNumbersWitness ==
  /\ Len(wire) = 2
  /\ last_op.op = "DoResponse"
  /\ last_sent.type = "response"
  /\ outcomes[1].success = 1

\* The notice of a response that matches no entry.
DuplicateNotice(request_seq) ==
  "Protocol error: duplicate response for request " \o ToString(request_seq)

\* The notice of an aborted request that has no failure handler.
AbortNotice(request, reason) ==
  "Request for " \o request.msg.command \o " aborted: " \o reason

\* The step just taken is an OnData that decoded exactly one envelope, of
\* the given type.
Decoded(type) ==
  /\ Did("OnData")
  /\ Len(received') = 1
  /\ received'[1].type = type

\* C3: a response whose request_seq matches an outstanding entry resolves
\* that entry and no other: it is popped, its timer is stopped, the others
\* stay. A response for a number that was assigned and is no longer
\* outstanding is reported as a duplicate, invokes no handler, leaves the
\* ledger as it is and raises nothing.
ResponseResolvesOnce ==
  [][Decoded("response") =>
       LET m == received'[1]
           i == LedgerIndex(outstanding_requests, m.request_seq)
       IN  IF i # 0
             THEN /\ outstanding_requests' = Without(outstanding_requests, i)
                  /\ timers' = timers \ {outstanding_requests[i].expiry_id}
                  /\ removed'[m.request_seq] = Append(removed[m.request_seq], "response")
           ELSE m.request_seq < next_message_id =>
                  /\ notices' = <<DuplicateNotice(m.request_seq)>>
                  /\ calls' = <<>>
                  /\ outstanding_requests' = outstanding_requests
                  /\ raised' = NoException
    ]_vars

ResetAbortsEveryEntry ==
  [][Did("Reset") =>
       /\ outstanding_requests' = <<>>
       /\ Len(calls') + Len(notices') = Len(outstanding_requests)
       /\ \A i \in DOMAIN outstanding_requests :
            LET r == outstanding_requests[i]
            IN  /\ r.expiry_id \notin timers'
                /\ removed'[r.key] = Append(removed[r.key], "reset")
                /\ IF r.failure_handler
                     THEN /\ Cardinality(
                               {j \in DOMAIN calls' :
                                  calls'[j] = Call("failure_handler", r.key, r.key,
                                                   "Closing down", EmptyDict)}) = 1
                          /\ outcomes'[r.key].failure = outcomes[r.key].failure + 1
                   ELSE /\ outcomes'[r.key] = outcomes[r.key]
                        /\ \E j \in DOMAIN notices' :
                             notices'[j] = AbortNotice(r, "Closing down")
       /\ \A j \in DOMAIN calls' :
            calls'[j].fn = "failure_handler" /\ calls'[j].reason = "Closing down"
    ]_vars

\* C5 happens: Reset has aborted two entries, one through its failure
\* handler and one through the notice.
ResetAbortsEveryEntryWitness ==
  /\ last_op.op = "Reset"
  /\ last_op.arg >= 2
  /\ Len(calls) = 1
  /\ Len(notices) = 1
  /\ outstanding_requests = <<>>

\* C8: once Reset has run, no DoRequest or DoResponse writes anything, and
\* no envelope OnData decodes invokes a request's handler or failure handler
\* or a method of the chain, or touches the ledger.
NothingAfterReset ==
  [][was_reset =>
       /\ wire' = wire
       /\ (Did("DoRequest") \/ Did("DoResponse")) =>
            ~last_op'.ok /\ last_sent' = NoMsg
       /\ Did("OnData") =>
            /\ calls' = <<>>
            /\ notices' = <<>>
            /\ outcomes' = outcomes
            /\ outstanding_requests' = outstanding_requests
    ]_vars

\* C8 happens: after Reset a request was issued, and a response for it was
\* decoded and dropped.
NothingAfterResetWitness ==
  /\ was_reset
  /\ last_op.op = "OnData"
  /\ Len(received) = 1
  /\ received[1].type = "response"
  /\ received[1].request_seq \in Keys(outstanding_requests)

\* C7: however the channel cuts a stream of valid frames into chunks, after
\* every chunk the envelopes dispatched so far, in order, and the decoder's
\* state, unconsumed buffer and headers are those a fresh decoder has after
\* one OnData call with all the bytes fed so far; nothing is raised.
ChunkingIsInvisible ==
  LET whole == OnDataLoop([state |-> "READ_HEADER", buffer |-> Utf8Encode(fed),
                           headers |-> NoHeaders, sess |-> Session,
                           msgs |-> <<>>, raised |-> NoException])
  IN  /\ dispatched = whole.msgs
      /\ state = whole.state
      /\ buffer = whole.buffer
      /\ headers = whole.headers
      /\ raised = NoException
      /\ whole.raised = NoException

\* C7 happens: one envelope has been dispatched, and the last chunk ended
\* inside the body of the frame that follows it, with more of the stream to
\* come.
ChunkingIsInvisibleWitness ==
  /\ last_op.op = "OnData"
  /\ Len(dispatched) = 1
  /\ state = "READ_BODY"
  /\ buffer # <<>>
  /\ inflight # <<>>

\* The method an event or a reverse request is dispatched to.
MethodOf(m) == (IF m.type = "event" THEN "OnEvent_" ELSE "OnRequest_") \o m.name

\* The handlers of the chain that expose a method, and of those the ones a
\* walk reaches: all up to and including the first that returns truthy.
Exposing(chain, method) == {i \in DOMAIN chain : method \in chain[i].methods}
Reached(chain, method) ==
  LET stop == {i \in Exposing(chain, method) : method \in chain[i].truthy}
  IN  IF stop = {} THEN Exposing(chain, method)
      ELSE {i \in Exposing(chain, method) : i <= Min(stop)}

\* The calls are made of one method with one envelope, by exactly the
\* handlers of the set, in the order of the chain.
CallsAre(cs, who, method, about, reason, msg) ==
  /\ Len(cs) = Cardinality(who)
  /\ {cs[j].who : j \in DOMAIN cs} = who
  /\ \A j \in DOMAIN cs : \A k \in DOMAIN cs : j < k => cs[j].who < cs[k].who
  /\ \A j \in DOMAIN cs :
       cs[j] = Call(method, cs[j].who, about, reason, msg)

\* C9: an event or a reverse request is offered to the handlers of the chain
\* in registration order; exactly the handlers exposing the method up to the
\* first that returns truthy are invoked, with the envelope; the ledger, the
\* timers and the decoder are left as they were, and when no handler exposes
\* the method nothing at all is invoked.
ChainWalkStopsAtFirstHandled ==
  [][(Decoded("event") \/ Decoded("request")) =>
       LET m == received'[1]
           chain == handlers.list
       IN  /\ CallsAre(calls', Reached(chain, MethodOf(m)), MethodOf(m), 0,
                       NoneValue, m)
           /\ Exposing(chain, MethodOf(m)) = {} => calls' = <<>>
           /\ notices' = <<>>
           /\ raised' = NoException
           /\ UNCHANGED <<outstanding_requests, timers, outcomes, removed,
                          state, buffer, headers>>
    ]_vars

\* C9 happens: an event was offered to a chain of three handlers that all
\* expose its method; the second returned truthy and the third was not called.
ChainWalkStopsAtFirstHandledWitness ==
  /\ last_op.op = "OnData"
  /\ Len(received) = 1
  /\ received[1].type = "event"
  /\ Exposing(handlers.list, MethodOf(received[1])) = {1, 2, 3}
  /\ Len(calls) = 2
  /\ calls[1].who = 1
  /\ calls[2].who = 2

\* The reason a failure response is reported with: its message, or the
\* rendered body.error.format where it can be rendered.
ExpectedReason(m) ==
  IF m.error = GoodError THEN "Cannot open a.out"
  ELSE IF m.error = LiteralError THEN "Adapter failure"
  ELSE m.message

\* C10: a failure response that matches an outstanding entry never invokes
\* the entry's success handler; an entry with a failure handler has it
\* invoked once with the reason and the response and no OnFailure is called;
\* otherwise the OnFailure methods of the chain are called in registration
\* order up to the first that returns truthy. The reason is the message, or
\* the rendered body.error.format; a template that cannot be rendered leaves
\* the message and dispatch goes on.
FailureResponseReachesFailurePath ==
  [][Decoded("response") =>
       LET m == received'[1]
           i == LedgerIndex(outstanding_requests, m.request_seq)
       IN  (i # 0 /\ ~m.success) =>
             LET r == outstanding_requests[i]
             IN  /\ raised' = NoException
                 /\ outcomes'[r.key].success = outcomes[r.key].success
                 /\ IF r.failure_handler
                      THEN /\ calls' = <<Call("failure_handler", r.key, r.key,
                                              ExpectedReason(m), m)>>
                           /\ outcomes'[r.key].failure = outcomes[r.key].failure + 1
                    ELSE CallsAre(calls', Reached(handlers.list, "OnFailure"),
                                  "OnFailure", r.key, ExpectedReason(m), m)
    ]_vars

\* The bytes the step just taken has fed to OnData.
Chunk == SubSeq(fed', Len(fed) + 1, Len(fed'))

\* The step just taken has fed the last byte of the block that starts the
\* stream.
Completes(block) ==
  /\ Did("OnData")
  /\ Len(fed) < Len(block)
  /\ Len(block) <= Len(fed')
  /\ SubSeq(fed', 1, Len(block)) = block

\* C11: the OnData call that completes a header block without Content-Length
\* empties the buffer, whatever followed the block in it, goes back to
\* READ_HEADER with no headers, dispatches nothing and raises nothing; and a
\* well-formed frame handed whole to a later OnData call, the buffer being
\* empty, is decoded and dispatched.
MissingLengthDiscardsBuffer ==
  [][/\ Completes(NoLengthBlock) =>
          /\ buffer' = <<>>
          /\ state' = "READ_HEADER"
          /\ headers' = NoHeaders
          /\ received' = <<>>
          /\ calls' = <<>>
          /\ notices' = <<>>
          /\ raised' = NoException
          /\ UNCHANGED <<outstanding_requests, timers, outcomes>>
     /\ \A m \in Envelopes :
          (/\ Did("OnData")
           /\ state = "READ_HEADER"
           /\ buffer = <<>>
           /\ Chunk = Frame(JsonDumps(m))) =>
            /\ received' = <<m>>
            /\ raised' = NoException
            /\ state' = "READ_HEADER"
            /\ buffer' = <<>>
    ]_vars

\* C11 happens: the stream that started with the block without
\* Content-Length has been delivered; the response that followed the block
\* was lost with it, and the event delivered by the last call was dispatched.
MissingLengthDiscardsBufferWitness ==
  /\ last_op.op = "OnData"
  /\ inflight = <<>>
  /\ Len(fed) > Len(NoLengthBlock)
  /\ SubSeq(fed, 1, Len(NoLengthBlock)) = NoLengthBlock
  /\ dispatched = <<Event("stopped")>>
  /\ received = <<Event("stopped")>>
  /\ calls # <<>>

\* The reason the failure handler of a request was given, by the path the
\* request left the ledger by; a request whose write failed has left by none.
ReasonOfPath(path) ==
  IF path = <<>> THEN "Unable to send message"
  ELSE IF path = <<"timeout">> THEN "Timeout"
  ELSE IF path = <<"reset">> THEN "Closing down"
  ELSE MessageText

\* C12: DoRequestSync ends, whatever the host runs while it sleeps, having
\* slept at most (timeout + 1000) / 10 + 1 times, and
\* when it ends it returns the response if the success handler of its request
\* ran, raises the reason the failure handler was given if that ran (timeout,
\* teardown, failure response), and raises "No response" if neither ran by
\* the end of the wait; when the write failed it raises "Unable to send
\* message" and has not slept.
SyncCallIsBoundedAndFaithful ==
  /\ [](/\ SleepMs * sync.sleeps <= sync.timeout + GraceMs + SleepMs
        /\ sync.pc \in {"loop", "sleep", "done"} =>
             sync.to_wait + SleepMs * sync.sleeps
               \in {sync.timeout + GraceMs, sync.timeout + GraceMs + SleepMs})
  /\ [][(sync.pc = "loop" /\ sync'.pc = "done") =>
          LET o == outcomes[sync.key]
              path == removed[sync.key]
          IN  /\ (o.success = 1 /\ o.failure = 0) =>
                   sync'.ret = Return(Response(sync.key, TRUE, NoneValue, NoError))
              /\ o.failure >= 1 =>
                   /\ o.success = 0
                   /\ sync'.ret = Raise(ReasonOfPath(path))
                   /\ path = <<>> => sync.sleeps = 0
              /\ (o.success = 0 /\ o.failure = 0) =>
                   /\ sync'.ret = Raise("No response")
                   /\ sync.to_wait < 0
                   /\ SleepMs * sync.sleeps > sync.timeout + GraceMs
              /\ o.success + o.failure <= 1
       ]_vars
  /\ (sync.pc = "call") ~> (sync.pc = "done")

\* C12 happens: the call has ended with the timeout's failure after some
\* sleeps.
SyncCallIsBoundedAndFaithfulWitness ==
  /\ sync.pc = "done"
  /\ sync.sleeps >= 2
  /\ sync.ret = Raise("Timeout")
  /\ outcomes[sync.key].failure = 1

\* C13: DoResponse takes one fresh sequence number and writes one response
\* envelope with the request_seq and command of the request it answers,
\* success false and message = error when an error is given, success true
\* and no message otherwise; it adds no ledger entry, starts no timer, calls
\* nothing and leaves the ledger and the decoder alone, also when the write
\* fails, in which case nothing is written.
DoResponseIsFireAndForget ==
  [][Did("DoResponse") =>
       /\ last_op'.arg = next_message_id
       /\ next_message_id' = next_message_id + 1
       /\ IF last_op'.ok
            THEN /\ wire' = Append(wire, next_message_id)
                 /\ last_sent' =
                      IF last_op'.error = NoneValue
                        THEN [seq |-> next_message_id, type |-> "response",
                              command |-> last_op'.request.command,
                              request_seq |-> last_op'.request.seq,
                              success |-> TRUE, message |-> NoneValue]
                      ELSE [seq |-> next_message_id, type |-> "response",
                            command |-> last_op'.request.command,
                            request_seq |-> last_op'.request.seq,
                            success |-> FALSE, message |-> last_op'.error]
          ELSE wire' = wire /\ last_sent' = NoMsg
       /\ calls' = <<>>
       /\ notices' = <<>>
       /\ raised' = NoException
       /\ UNCHANGED <<outstanding_requests, timers, next_timer, outcomes,
                      removed, state, buffer, headers, handlers, Write>>
    ]_vars

\* C13 happens: with a request outstanding, DoResponse has written a response
\* that reports an error.
DoResponseIsFireAndForgetWitness ==
  /\ last_op.op = "DoResponse"
  /\ last_op.ok
  /\ last_sent.success = FALSE
  /\ last_sent.message = "Cancelled"
  /\ last_sent.request_seq = 7
  /\ outstanding_requests # <<>>
  /\ timers # {}

\* C14: a header block with the line "Content-Length: 13\nGarbage" and a
\* well-formed Content-Length line is parsed without error: the call that
\* completes the block raises nothing, the Content-Length the decoder goes on
\* with is that of the well-formed line, and the body is read with it and
\* dispatched as soon as it is there.
StrayLineFeedIsRepaired ==
  [][Completes(StrayLineFeedBlock) =>
       /\ raised' = NoException
       /\ IF Len(fed') < Len(StrayLineFeedFrame)
            THEN /\ state' = "READ_BODY"
                 /\ ContentLength \in DOMAIN headers'
                 /\ ParseInt(headers'[ContentLength]) =
                      [ok |-> TRUE, value |-> Len(JsonDumps(Event("output")))]
                 /\ received' = <<>>
          ELSE /\ received' # <<>>
               /\ received'[1] = Event("output")
    ]_vars

\* The entries of the ledger that own a timer id.
Owners(timer_id) ==
  {i \in DOMAIN outstanding_requests :
     outstanding_requests[i].expiry_id = timer_id}

\* C15: OnRequestTimeout with a timer id that no entry of the ledger owns
\* invokes nothing, emits no notice and leaves the ledger, the other timers
\* and the outcomes as they were; with a timer id an entry owns, it removes
\* that one entry, runs its failure path once, and leaves the other entries
\* and their timers as they were.
StaleTimeoutIsNoOp ==
  [][Did("OnRequestTimeout") =>
       LET timer_id == last_op'.arg
       IN  IF Owners(timer_id) = {}
             THEN /\ ~last_op'.ok
                  /\ calls' = <<>>
                  /\ notices' = <<>>
                  /\ outstanding_requests' = outstanding_requests
                  /\ timers' = timers \ {timer_id}
                  /\ UNCHANGED <<outcomes, removed, wire, next_message_id,
                                 state, buffer, headers, handlers, Write>>
           ELSE /\ Cardinality(Owners(timer_id)) = 1
                /\ \A i \in Owners(timer_id) :
                     /\ outstanding_requests' = Without(outstanding_requests, i)
                     /\ \A n \in 1..MaxSeq :
                          n # outstanding_requests[i].key =>
                            /\ outcomes'[n] = outcomes[n]
                            /\ removed'[n] = removed[n]
                     /\ \A j \in DOMAIN calls' :
                          calls'[j].who = outstanding_requests[i].key
                /\ Len(calls') + Len(notices') = 1
                /\ timers' = timers \ {timer_id}
    ]_vars

\* C15 happens: the timer of a request that a response had resolved was
\* routed to OnRequestTimeout while another request was outstanding.
StaleTimeoutIsNoOpWitness ==
  /\ last_op.op = "OnRequestTimeout"
  /\ ~last_op.ok
  /\ last_op.arg = 1
  /\ removed[1] = <<"response">>
  /\ Len(outstanding_requests) = 1
  /\ timers # {}

\* C16: every live timer is the timer of an entry of the ledger, so no
\* request that has left the ledger has a live timer; and the step that takes
\* an entry out of the ledger, by a response, a timeout or Reset, leaves the
\* entry's timer stopped.
RemovalCancelsTimer ==
  /\ [](\A t \in timers :
          \E i \in DOMAIN outstanding_requests :
            outstanding_requests[i].expiry_id = t)
  /\ [][\A i \in DOMAIN outstanding_requests :
          outstanding_requests[i].key \notin Keys(outstanding_requests') =>
            /\ outstanding_requests[i].expiry_id \notin timers'
            /\ removed'[outstanding_requests[i].key] # removed[outstanding_requests[i].key]
       ]_vars

\* C16 happens: a response has resolved the first request, whose timer was
\* live, while the second is outstanding with its own timer.
RemovalCancelsTimerWitness ==
  /\ last_op.op = "OnData"
  /\ removed[1] = <<"response">>
  /\ Len(outstanding_requests) = 1
  /\ outstanding_requests[1].key = 2
  /\ timers = {outstanding_requests[1].expiry_id}

\* C17: every key of the ledger is a sequence number already assigned, below
\* the next one to assign; no key occurs twice; and the envelope stored under
\* a key is a request whose seq is the key.
LedgerKeysAreAssignedSeqs ==
  /\ \A i \in DOMAIN outstanding_requests :
       /\ outstanding_requests[i].key \in 1..(next_message_id - 1)
       /\ outstanding_requests[i].msg.seq = outstanding_requests[i].key
       /\ outstanding_requests[i].msg.type = "request"
  /\ Cardinality(Keys(outstanding_requests)) = Len(outstanding_requests)

\* C17 happens: a request is outstanding under key 2, number 1 having gone
\* to a response this session wrote.
LedgerKeysAreAssignedSeqsWitness ==
  /\ Len(outstanding_requests) = 1
  /\ outstanding_requests[1].key = 2
  /\ next_message_id = 3
  /\ wire = <<1, 2>>
  /\ removed[1] = <<>>
  /\ outcomes[1] = [success |-> 0, failure |-> 0]

\* The bytes of a frame up to the end of what its Content-Length counts.
CountedBytes(payload) == Len(Frame(payload))

\* C18: the OnData call that receives the last byte counted by the
\* Content-Length of a frame whose body does not decode raises the failure,
\* dispatches nothing and changes nothing in the ledger; the decoder has
\* consumed the frame up to that byte and no more, and is in READ_HEADER with
\* no headers; and once the stream is delivered and the last call has
\* returned, the frames that followed have been dispatched, in order.
UndecodableBodyIsSkipped ==
  [][\A p \in UndecodableBodies :
       (/\ Did("OnData")
        /\ Len(fed') >= Len(Frame(p))
        /\ SubSeq(fed', 1, Len(Frame(p))) = Frame(p)) =>
         LET before == Utf8Encode(fed)
             after == Utf8Encode(fed')
         IN  /\ (Len(before) < CountedBytes(p) /\ CountedBytes(p) <= Len(after)) =>
                  /\ raised' \in {"JSONDecodeError", "UnicodeDecodeError"}
                  /\ received' = <<>>
                  /\ calls' = <<>>
                  /\ UNCHANGED <<outstanding_requests, timers, outcomes>>
                  /\ state' = "READ_HEADER"
                  /\ headers' = NoHeaders
                  /\ buffer' = SubSeq(after, CountedBytes(p) + 1, Len(after))
             /\ (inflight' = <<>> /\ raised' = NoException) =>
                  dispatched' = <<Response(1, TRUE, NoneValue, NoError),
                                  Event("stopped")>>
    ]_vars

\* C19: in a session on which Reset has not run no response is dropped: a
\* decoded response whose request_seq is in the ledger takes its entry out
\* of the ledger, stops its timer and invokes the handler the entry holds
\* for it, whatever the handler chain, the empty chain included.
OnlyTeardownDropsResponses ==
  [][(~was_reset /\ Decoded("response")) =>
       \A i \in DOMAIN outstanding_requests :
         outstanding_requests[i].key = received'[1].request_seq =>
           LET r == outstanding_requests[i]
           IN  /\ r.key \notin Keys(outstanding_requests')
               /\ r.expiry_id \notin timers'
               /\ (received'[1].success /\ r.handler) =>
                    outcomes'[r.key].success = outcomes[r.key].success + 1
               /\ (~received'[1].success /\ r.failure_handler) =>
                    outcomes'[r.key].failure = outcomes[r.key].failure + 1
    ]_vars

\* C20: every entry of the ledger has a live timer, and every request that
\* is in the ledger leaves it in the end, the one whose write failed and
\* the one issued after Reset too.
EveryRequestLeavesTheLedger ==
  /\ [](\A i \in DOMAIN outstanding_requests :
          outstanding_requests[i].expiry_id \in timers)
  /\ \A n \in 1..MaxSeq :
       (n \in Keys(outstanding_requests)) ~> (n \notin Keys(outstanding_requests))

====
